---- MODULE Spec2Model ----
(***************************************************************************)
(* casper-dashboard: the state updater (scripts/update-state.sh) and its   *)
(* archival of finished pipelines into the pipeline_history table.         *)
(*                                                                         *)
(* An invocation of the script is a process: it reads a state document,    *)
(* filters the terminal pipelines, and for each one extracts its fields,   *)
(* probes and counts the history rows of its id, computes a duration,      *)
(* builds a payload, POSTs it, and finally PATCHes the live state.  The    *)
(* script runs under `set -euo pipefail`: a failing unguarded command      *)
(* ends the invocation on the spot.  Every HTTP request is one atomic      *)
(* step against the store; the store is shared by all invocations.         *)
(***************************************************************************)
EXTENDS Integers, Sequences, FiniteSets, TLC

\* ------------------------------------------------------------------ bounds
MaxBatch == 2       \* pipelines per state document
MaxRuns == 2        \* invocations started in one behaviour
MaxFaults == 1      \* requests that fail in one behaviour
MaxSecs == 7300     \* largest elapsed time drawn for the duration function
MaxStages == 40     \* stages of a pipeline handed to PipelineRow
MaxShort == 3       \* stages of the pipelines drawn with every status
MaxSeconds == 20    \* seconds the Dashboard page stays open
MaxWrites == 3      \* documents written to dashboard_state while it is open
MaxClicks == 2      \* clicks on "Send Next" while the EmailPage is open
MaxRefetches == 1   \* times the EmailPage's 30 s timer fires

\* ------------------------------------------------- JSON values and fields
\* An optional field of a JSON object: <<>> when the key is absent,
\* <<v>> when it is present with value v.
None == <<>>
Some(v) == <<v>>

\* d.get(key, default)
Get(field, default) == IF field = None THEN default ELSE field[1]

\* The text of a timestamp, by what its readers make of it:
\*   aware    ISO-8601 with an offset ("...Z"): Python parses it to an instant
\*   naive    ISO-8601 without offset: Python parses it, but it cannot be
\*            subtracted from an aware datetime (TypeError)
\*   garbage  not a timestamp (also JSON null, printed as "None")
\*   quote    text holding an apostrophe, which ends the Python string
\*            literal it is pasted into
\* secs is the instant's whole second, frac whether a fraction follows it.
TsKinds == {"aware", "naive", "garbage", "quote"}
Ts(kind, secs, frac) == [kind |-> kind, secs |-> secs, frac |-> frac]

\* Each invocation reads the clock Tick seconds after the one before it.
Tick == 3700
T0 == Ts("aware", 0, FALSE)      \* the pipelines' usual start

Ids == {"p1", "p2"}
Statuses == {"running", "complete", "failed"}
TaskList == <<"t1">>

\* A text is a sequence of pieces: runs of ordinary characters, and the
\* pieces that matter where the text is pasted between apostrophes into
\* Python source: an apostrophe, and a backslash with the letter t.
Apostrophe == "'"
BackslashT == "\\t"
Tab == "\t"
NameNightly == <<"Nightly">>
NameTemp == <<"C:", BackslashT, "emp">>
StagesAB == <<"build", "test">>
StagesC == <<"deploy">>

Snapshot(id, name, stages, completedStages, status, startedAt, tasks) ==
    [id |-> id, name |-> name, stages |-> stages,
     completedStages |-> completedStages, status |-> status,
     startedAt |-> startedAt, tasks |-> tasks]

\* The pipelines a state document is made of: p1 running, p1 complete
\* without name, p1 without startedAt, p1 without tasks, p2 failed with a
\* backslash in its name, and the ids that archive_pipeline skips.
Snapshots ==
    { Snapshot(Some("p1"), Some(NameNightly), Some(StagesAB), Some(<<"build">>),
               "running", Some(T0), Some(TaskList)),
      Snapshot(Some("p1"), None, Some(StagesAB), Some(StagesAB),
               "complete", Some(T0), Some(TaskList)),
      Snapshot(Some("p1"), Some(NameNightly), Some(StagesAB), Some(StagesAB),
               "complete", None, Some(TaskList)),
      Snapshot(Some("p1"), Some(NameNightly), Some(StagesAB), Some(StagesAB),
               "complete", Some(T0), None),
      Snapshot(Some("p2"), Some(NameTemp), Some(StagesC), Some(<<>>),
               "failed", Some(T0), Some(TaskList)),
      Snapshot(Some("unknown"), Some(NameNightly), Some(StagesC), Some(StagesC),
               "complete", Some(T0), Some(TaskList)),
      Snapshot(None, Some(NameNightly), Some(StagesC), Some(<<>>),
               "failed", Some(T0), Some(TaskList)) }

RECURSIVE SeqsUpTo(_, _)
SeqsUpTo(S, n) ==
    IF n = 0 THEN {<<>>}
    ELSE LET shorter == SeqsUpTo(S, n - 1)
         IN  shorter \cup {Append(q, x) : q \in {r \in shorter : Len(r) = n - 1}, x \in S}

\* data.get('pipelines', []) of the documents handed to the script
Documents == SeqsUpTo(Snapshots, MaxBatch)

\* ------------------------------------------------------- pure computations
IsTerminal(p) == p.status \in {"complete", "failed"}

\* The filter without its condition: every pipeline is a candidate.
FilterNothing(pipelines) == pipelines

\* done = [p for p in pipelines if p.get('status') in ('complete', 'failed')]
FilterDone(pipelines) == SelectSeq(pipelines, IsTerminal)

\* print(d.get('id','unknown'))
ExtractId(p) == Get(p.id, "unknown")

\* The id check without the sentinel.
SkipEmptyIdOnly(pipeline_id) == pipeline_id = ""

\* [ -z "$pipeline_id" ] || [ "$pipeline_id" = "unknown" ]
SkipId(pipeline_id) == pipeline_id = "" \/ pipeline_id = "unknown"

\* int((end - start).total_seconds()): start may carry a fraction of a
\* second, NOW never does; int() truncates toward zero.
DiffSeconds(start, now) ==
    LET whole == now - start.secs
    IN  IF start.frac /\ whole >= 1 THEN whole - 1 ELSE whole

FormatHM(h, m) == ToString(h) \o "h " \o ToString(m) \o "m"
FormatMS(m, s) == ToString(m) \o "m " \o ToString(s) \o "s"

\* The minutes taken from the whole difference instead of the remainder.
FormatDurationNoRem(diff) ==
    LET h == diff \div 3600
        m == diff \div 60
        s == diff % 60
    IN  IF h > 0 THEN FormatHM(h, m) ELSE FormatMS(m, s)

\* h, rem = divmod(diff, 3600); m, s = divmod(rem, 60)   (floor division)
FormatDuration(diff) ==
    LET h == diff \div 3600
        rem == diff % 3600
        m == rem \div 60
        s == rem % 60
    IN  IF h > 0 THEN FormatHM(h, m) ELSE FormatMS(m, s)

\* The inline Python of the duration step: what it prints and its exit code.
PyDuration(ts, now) ==
    CASE ts.kind = "aware" -> [stdout |-> FormatDuration(DiffSeconds(ts, now)), rc |-> 0]
      [] ts.kind = "naive" -> [stdout |-> "unknown", rc |-> 0]     \* TypeError, caught
      [] ts.kind = "garbage" -> [stdout |-> "unknown", rc |-> 0]   \* ValueError, caught
      [] ts.kind = "quote" -> [stdout |-> "", rc |-> 1]            \* SyntaxError

\* The substitution without its `|| echo "unknown"`.
DurationSubstNoFallback(ts, now) ==
    LET py == PyDuration(ts, now)
    IN  [value |-> py.stdout, rc |-> py.rc]

\* duration=$(python3 -c "..." 2>/dev/null || echo "unknown")
DurationSubst(ts, now) ==
    LET py == PyDuration(ts, now)
    IN  IF py.rc = 0 THEN [value |-> py.stdout, rc |-> 0]
        ELSE [value |-> "unknown", rc |-> 0]

\* local duration="unknown"; if [ -n "$started_at" ]; then duration=$(...); fi
DurationStep(started_at, now) ==
    IF started_at = None THEN [value |-> "unknown", rc |-> 0]
    ELSE DurationSubst(started_at[1], now)

\* print(d.get('name','Unknown Pipeline'))
ExtractName(p) == Get(p.name, <<"Unknown Pipeline">>)

\* print(json.dumps(d.get('stages',[])))
ExtractStages(p) == Get(p.stages, <<>>)

\* print(json.dumps(d.get('completedStages',[])))
ExtractCompletedStages(p) == Get(p.completedStages, <<>>)

\* Whether the Python literal '<text>' ends where the text does.
ClosesLiteral(text) == \A n \in 1..Len(text) : text[n] # Apostrophe

\* The string the Python literal '<text>' denotes: an escape sequence is
\* replaced by the character it stands for.
PyLiteral(text) == [n \in 1..Len(text) |-> IF text[n] = BackslashT THEN Tab ELSE text[n]]

\* PAYLOAD=$(python3 -c "payload = {...}; print(json.dumps(payload))"): the
\* shell pastes its variables into Python source, so the JSON text of tasks
\* must also be a Python expression (null is not) and no pasted string may
\* hold an apostrophe.  rc is Python's exit code.
BuildPayload(p, now) ==
    LET started_at == p.startedAt
        name == ExtractName(p)
        py_ok == /\ p.tasks # None
                 /\ ClosesLiteral(name)
                 /\ (started_at = None \/ started_at[1].kind # "quote")
    IN  [rc |-> IF py_ok THEN 0 ELSE 1,
         payload |-> [pipeline_id |-> ExtractId(p),
                      name |-> PyLiteral(name),
                      stages |-> ExtractStages(p),
                      completed_stages |-> ExtractCompletedStages(p),
                      started_at |-> started_at,
                      completed_at |-> now,
                      status |-> p.status,
                      duration |-> DurationStep(started_at, now).value,
                      tasks |-> p.tasks]]

\* pipeline_history: started_at TIMESTAMPTZ NOT NULL, and no constraint on
\* pipeline_id.  The store takes a row iff started_at is a timestamp.
StoreAccepts(row) ==
    /\ row.started_at # None
    /\ row.started_at[1].kind \in {"aware", "naive"}

\* An upsert on pipeline_id: the rows of the id give way to the new one.
InsertUpsert(rows, row) ==
    Append(SelectSeq(rows, LAMBDA r : r.pipeline_id # row.pipeline_id), row)

\* POST /rest/v1/pipeline_history: the row is added; no row is touched.
Insert(rows, row) == Append(rows, row)

\* rows matching ?pipeline_id=eq.<id>
RowsOf(rows, id) == SelectSeq(rows, LAMBDA r : r.pipeline_id = id)

\* A count that never sees a row.
CountBlind(outcome, rows, id) == 0

\* count=$(curl -s ... | python3 -c "print(len(json.load(sys.stdin)))"
\*         2>/dev/null || echo "0")
\* rows: the store answers with the matching rows.  errjson: it answers with
\* an error object, which PostgREST gives four keys (code, details, hint,
\* message).  nojson: the body is no JSON (a gateway's HTML page) or empty
\* (curl failed): Python fails, and so does the pipeline.
CountOf(outcome, rows, id) ==
    CASE outcome = "rows" -> Len(RowsOf(rows, id))
      [] outcome = "errjson" -> 4
      [] outcome = "nojson" -> 0

\* ------------------------------------------------ PipelineRow, computations
\* Numbers in JavaScript are IEEE 754 doubles: every operation gives the
\* exact result rounded to 53 significant bits, ties to even.  The values
\* of the percentage are held as m * 2^(-exp) with m a numeral of four
\* limbs of 18 bits, lowest first.
RECURSIVE Pow2(_)
Pow2(e) == IF e = 0 THEN 1 ELSE 2 * Pow2(e - 1)

Limb == Pow2(18)

\* the limbs after their carries have moved up
Carry(l) ==
    LET a1 == l[1]
        a2 == l[2] + a1 \div Limb
        a3 == l[3] + a2 \div Limb
        a4 == l[4] + a3 \div Limb
    IN  <<a1 % Limb, a2 % Limb, a3 % Limb, a4>>

\* Clear the d lowest bits of the numeral (d < 18), rounding to nearest,
\* ties to even; sticky tells whether anything non-zero lies below it.
RoundLow(l, d, sticky) ==
    LET dropped == l[1] % Pow2(d)
        half == Pow2(d - 1)
        keptOdd == (l[1] \div Pow2(d)) % 2 = 1
        up == \/ dropped > half
              \/ dropped = half /\ (sticky \/ keptOdd)
    IN  Carry(<<l[1] - dropped + (IF up THEN Pow2(d) ELSE 0), l[2], l[3], l[4]>>)

\* the least e with k * 2^e >= n
RECURSIVE NormShift(_, _)
NormShift(k, n) == IF k >= n THEN 0 ELSE 1 + NormShift(2 * k, n)

\* completedCount / totalStages, for 1 <= k <= n: with 1 <= k * 2^e / n < 2,
\* long division gives the quotient's leading bit and 53 more (17, 18 and
\* 18 of them), and the last of these is rounded away.
JsDivide(k, n) ==
    LET e == NormShift(k, n)
        r0 == k * Pow2(e) - n
        q1 == (r0 * Pow2(17)) \div n
        r1 == (r0 * Pow2(17)) % n
        q2 == (r1 * Limb) \div n
        r2 == (r1 * Limb) % n
        q3 == (r2 * Limb) \div n
        r3 == (r2 * Limb) % n
    IN  [m |-> RoundLow(<<q3, q2, Pow2(17) + q1, 0>>, 1, r3 # 0), exp |-> 53 + e]

\* the number of bits of a numeral of 60 or 61 bits
BitLength(l) == IF l[4] >= Pow2(6) THEN 61 ELSE 60

\* x * 100, for x as JsDivide gives it: the exact product has 60 or 61
\* bits, of which 53 are kept.
JsTimes100(x) ==
    LET p == Carry(<<100 * x.m[1], 100 * x.m[2], 100 * x.m[3], 100 * x.m[4]>>)
    IN  [m |-> RoundLow(p, BitLength(p) - 53, FALSE), exp |-> x.exp]

\* Math.round(x), for x as JsTimes100 gives it: the integer part, and one
\* more if the fraction is a half or above.
MathRound(x) ==
    LET top == x.m[4] * Limb + x.m[3]       \* the bits from 2^36 up
        s == x.exp - 36
    IN  (top \div Pow2(s)) + ((top \div Pow2(s - 1)) % 2)

\* const pct = Math.round((completedCount / totalStages) * 100)
\* (0 / n is 0, and so are its product and its rounding)
Pct(pipeline) ==
    LET completedCount == Len(pipeline.completedStages)
        totalStages == Len(pipeline.stages)
    IN  IF completedCount = 0 THEN 0
        ELSE MathRound(JsTimes100(JsDivide(completedCount, totalStages)))

\* pipeline.completedStages.includes(stage)
Includes(seq, x) == \E n \in 1..Len(seq) : seq[n] = x

\* Every stage of a running pipeline, whatever the current stage.
IsCurrentAnyStage(pipeline, stage) == pipeline.status = "running"

\* The current stage, whatever the status.
IsCurrentAnyStatus(pipeline, stage) == stage = pipeline.currentStage

\* const isCurrent = stage === pipeline.currentStage && pipeline.status === "running"
IsCurrent(pipeline, stage) ==
    stage = pipeline.currentStage /\ pipeline.status = "running"

\* One stage pill of the expanded row: the branch its background, border
\* and colour take, and the glyphs and the dot drawn with it.
Pill(pipeline, stage) ==
    LET isFailed == pipeline.status = "failed"
        isCompleted == Includes(pipeline.completedStages, stage)
        isCurrent == IsCurrent(pipeline, stage)
    IN  [stage |-> stage,
         style |-> IF isCurrent THEN "current"
                   ELSE IF isCompleted THEN "completed"
                   ELSE IF isFailed /\ stage = pipeline.currentStage THEN "failed"
                   ELSE "pending",
         bold |-> isCurrent,
         check |-> isCompleted,
         cross |-> isFailed /\ stage = pipeline.currentStage,
         dot |-> isCurrent]

\* One stage of the collapsed summary bar: its glyph.
SummaryGlyph(pipeline, stage) ==
    IF Includes(pipeline.completedStages, stage) THEN "check"
    ELSE IF pipeline.status = "failed" THEN "cross" ELSE "circle"

\* A row that works out its percentage only while it is expanded.
RenderLazy(pipeline, collapsed) ==
    LET terminal == pipeline.status \in {"complete", "failed"}
        stages == pipeline.stages
    IN  [pct |-> IF collapsed THEN 0 ELSE Pct(pipeline),
         summary |-> IF collapsed /\ terminal
                     THEN [n \in 1..Len(stages) |-> SummaryGlyph(pipeline, stages[n])]
                     ELSE <<>>,
         pills |-> IF ~collapsed
                   THEN [n \in 1..Len(stages) |-> Pill(pipeline, stages[n])]
                   ELSE <<>>]

\* What PipelineRow returns for its props and its state.
Render(pipeline, collapsed) ==
    LET terminal == pipeline.status \in {"complete", "failed"}
        stages == pipeline.stages
    IN  [pct |-> Pct(pipeline),
         summary |-> IF collapsed /\ terminal
                     THEN [n \in 1..Len(stages) |-> SummaryGlyph(pipeline, stages[n])]
                     ELSE <<>>,
         pills |-> IF ~collapsed
                   THEN [n \in 1..Len(stages) |-> Pill(pipeline, stages[n])]
                   ELSE <<>>]

StageName(n) == "stage" \o ToString(n)
StagesUpTo(n) == [j \in 1..n |-> StageName(j)]
NoStage == "none"

RowPipeline(stages, completedStages, currentStage, status) ==
    [stages |-> stages, completedStages |-> completedStages,
     currentStage |-> currentStage, status |-> status]

\* the stage after the k completed ones, the last if all are completed
NextStage(n, k) == StageName(IF k = n THEN n ELSE k + 1)

\* what currentStage may be in a pipeline of n stages, the first k of them
\* completed: the first, the last completed, the next, or no stage of it
CurrentStages(n, k) ==
    {StageName(1), StageName(IF k = 0 THEN 1 ELSE k), NextStage(n, k), NoStage}

\* The pipelines handed to PipelineRow, the first k of their n stages
\* completed: up to MaxShort stages, with every status and every
\* currentStage of the above; beyond, running at the next stage; and
\* pipelines that name a stage twice.
RowPipelines ==
    UNION { { RowPipeline(StagesUpTo(n), StagesUpTo(k), c, st) :
                 c \in CurrentStages(n, k), st \in Statuses } :
            <<n, k>> \in {nk \in (1..MaxShort) \X (0..MaxShort) : nk[2] <= nk[1]} }
    \cup { RowPipeline(StagesUpTo(nk[1]), StagesUpTo(nk[2]), NextStage(nk[1], nk[2]), "running") :
              nk \in {nk \in (1..MaxStages) \X (0..MaxStages) : nk[2] <= nk[1]} }
    \cup { RowPipeline(<<StageName(1), StageName(1)>>, <<>>, StageName(1), st) :
              st \in Statuses }

\* -------------------------------------------------------------- the state
Invocations == {"A", "B"}

VARIABLES
    history,      \* pipeline_history: the rows, in insertion order
    live,         \* dashboard_state row 1: updated_at, which tells whose
                  \* document the row holds (0: none yet)
    pc,           \* each invocation's place in the script
    STATE_JSON,   \* each invocation's document (its pipelines array)
    NOW,          \* each invocation's NOW=$(date -u ...), in seconds
    idx,          \* each invocation's place in PIPELINES_JSON (from 1)
    log,          \* each invocation's requests and decisions so far
    runs,         \* invocations started
    faults,       \* requests that failed
    clock,        \* the wall clock, in seconds
    dur,          \* the duration step on its own: its input and its result
    pipelineRow,  \* a PipelineRow on the page: its props, its state and
                  \* what it has rendered
    dashboard,    \* the Dashboard page: its state, its timers, its requests
                  \* under way and what it has rendered
    email         \* a subscriber's rows in email_subscribers and email_sends,
                  \* and the EmailPage: its state and its calls under way

scriptVars == <<history, live, pc, STATE_JSON, NOW, idx, log, runs, faults, clock>>
\* what the script never touches
others == <<dur, pipelineRow, dashboard, email>>
vars == <<scriptVars, others>>

\* PIPELINES_JSON: one line per terminal pipeline, in document order
PIPELINES_JSON(i) == FilterDone(STATE_JSON[i])

\* A loop that leaves its last line unread.
LoopDoneEarly(i) == idx[i] >= Len(PIPELINES_JSON(i))

\* done <<< "$PIPELINES_JSON": read has no line left
LoopDone(i) == idx[i] > Len(PIPELINES_JSON(i))

\* A shell loop that reads PIPELINES_JSON from its last line to its first.
CurBackwards(i) == PIPELINES_JSON(i)[Len(PIPELINES_JSON(i)) + 1 - idx[i]]

\* pipeline_line of the current turn of the while loop
Cur(i) == PIPELINES_JSON(i)[idx[i]]

Running(i) == pc[i] \in {"loop", "count", "post", "patch"}
Ended(i) == pc[i] \in {"done", "exit1", "aborted"}

Event(op, k, res) == [op |-> op, k |-> k, res |-> res]
Logged(i, op, res) == log' = [log EXCEPT ![i] = Append(@, Event(op, idx[i], res))]

\* A request may fail only while the behaviour's budget of failures lasts.
Fault(outcome, nominal) ==
    IF outcome = nominal THEN UNCHANGED faults
    ELSE faults < MaxFaults /\ faults' = faults + 1

InitScript ==
    /\ history = <<>>
    /\ live = 0
    /\ pc = [i \in Invocations |-> "idle"]
    /\ STATE_JSON = [i \in Invocations |-> <<>>]
    /\ NOW = [i \in Invocations |-> 0]
    /\ idx = [i \in Invocations |-> 1]
    /\ log = [i \in Invocations |-> <<>>]
    /\ runs = 0
    /\ faults = 0
    /\ clock = 0

DurIdle == [pc |-> "idle", started_at |-> None, now |-> 0, value |-> "", rc |-> 0]

\* no row on the page
RowNone == [pc |-> "none"]

\* the Dashboard page is not open
DashNone == [pc |-> "none"]

\* no subscriber, and the EmailPage is not open
EmailNone == [pc |-> "none"]

Init ==
    /\ InitScript
    /\ dur = DurIdle
    /\ pipelineRow = RowNone
    /\ dashboard = DashNone
    /\ email = EmailNone

\* ------------------------------------------------------------- the script
\* Lines 482-499 and 603-610: read the document, take NOW, filter.  (The
\* documents are JSON and the service key is set: the script's three early
\* exits are not taken.)
Start(i, docs) ==
    /\ pc[i] = "idle"
    /\ runs < MaxRuns
    /\ \E doc \in docs :
          STATE_JSON' = [STATE_JSON EXCEPT ![i] = doc]
    /\ runs' = runs + 1
    /\ clock' = clock + Tick
    /\ pc' = [pc EXCEPT ![i] = "loop"]
    /\ NOW' = [NOW EXCEPT ![i] = clock']
    /\ idx' = [idx EXCEPT ![i] = 1]
    /\ log' = [log EXCEPT ![i] = <<>>]
    /\ UNCHANGED <<history, live, faults, others>>

\* Lines 612-619 and 504-526: the next line of PIPELINES_JSON, if any, and
\* archive_pipeline up to existing=$(curl -s -o /dev/null -w "%{http_code}"
\* ...).  The status that request yields is never read, but under set -e a
\* failing curl ends the script.
Extract(i) ==
    /\ pc[i] = "loop"
    /\ IF LoopDone(i)
       THEN /\ pc' = [pc EXCEPT ![i] = "patch"]
            /\ UNCHANGED <<idx, log, faults>>
       ELSE IF SkipId(ExtractId(Cur(i)))
       THEN /\ Logged(i, "drop", "return")
            /\ idx' = [idx EXCEPT ![i] = @ + 1]
            /\ UNCHANGED <<pc, faults>>
       ELSE \E outcome \in {"ok", "curlfail"} :
              /\ Fault(outcome, "ok")
              /\ Logged(i, "probe", outcome)
              /\ pc' = [pc EXCEPT ![i] = IF outcome = "ok" THEN "count" ELSE "aborted"]
              /\ UNCHANGED idx
    /\ UNCHANGED <<history, live, STATE_JSON, NOW, runs, clock, others>>

\* Lines 528-581: count the rows of the id; skip when there are any, else
\* compute the duration and build the payload.
Count(i) ==
    /\ pc[i] = "count"
    /\ \E outcome \in {"rows", "nojson", "errjson"} :
          LET count == CountOf(outcome, history, ExtractId(Cur(i)))
              res == IF outcome = "rows"
                     THEN (IF count > 0 THEN "found" ELSE "empty") ELSE outcome
          IN  /\ Fault(outcome, "rows")
              /\ Logged(i, "count", res)
              /\ IF count > 0
                 THEN /\ pc' = [pc EXCEPT ![i] = "loop"]
                      /\ idx' = [idx EXCEPT ![i] = @ + 1]
                 ELSE /\ pc' = [pc EXCEPT ![i] =
                                   IF BuildPayload(Cur(i), NOW[i]).rc = 0
                                   THEN "post" ELSE "aborted"]
                      /\ UNCHANGED idx
    /\ UNCHANGED <<history, live, STATE_JSON, NOW, runs, clock, others>>

\* Lines 583-599: POST the payload; the store takes or rejects the row.
Post(i) ==
    /\ pc[i] = "post"
    /\ \E outcome \in {"store", "curlfail", "http5xx"} :
          LET row == BuildPayload(Cur(i), NOW[i]).payload
              res == IF outcome = "store"
                     THEN (IF StoreAccepts(row) THEN "201" ELSE "400") ELSE outcome
          IN  /\ Fault(outcome, "store")
              /\ Logged(i, "post", res)
              /\ history' = IF res = "201" THEN Insert(history, row) ELSE history
              /\ IF outcome = "curlfail"
                 THEN /\ pc' = [pc EXCEPT ![i] = "aborted"]
                      /\ UNCHANGED idx
                 ELSE /\ pc' = [pc EXCEPT ![i] = "loop"]
                      /\ idx' = [idx EXCEPT ![i] = @ + 1]
    /\ UNCHANGED <<live, STATE_JSON, NOW, runs, clock, others>>

\* A PATCH that, when it fails, takes back the rows the invocation wrote.
PatchRollingBack(i) ==
    /\ pc[i] = "patch"
    /\ \E outcome \in {"204", "curlfail", "http5xx"} :
          /\ Fault(outcome, "204")
          /\ Logged(i, "patch", outcome)
          /\ live' = IF outcome = "204" THEN NOW[i] ELSE live
          /\ history' = IF outcome = "204" THEN history
                        ELSE SelectSeq(history, LAMBDA r : r.completed_at # NOW[i])
          /\ pc' = [pc EXCEPT ![i] = CASE outcome = "204" -> "done"
                                        [] outcome = "http5xx" -> "exit1"
                                        [] outcome = "curlfail" -> "aborted"]
    /\ UNCHANGED <<STATE_JSON, NOW, idx, runs, clock, others>>

\* Lines 622-638: PATCH dashboard_state with the document.
Patch(i) ==
    /\ pc[i] = "patch"
    /\ \E outcome \in {"204", "curlfail", "http5xx"} :
          /\ Fault(outcome, "204")
          /\ Logged(i, "patch", outcome)
          /\ live' = IF outcome = "204" THEN NOW[i] ELSE live
          /\ pc' = [pc EXCEPT ![i] = CASE outcome = "204" -> "done"
                                        [] outcome = "http5xx" -> "exit1"
                                        [] outcome = "curlfail" -> "aborted"]
    /\ UNCHANGED <<history, STATE_JSON, NOW, idx, runs, clock, others>>

\* The process is gone, and its variables with it.
Exit(i) ==
    /\ Ended(i)
    /\ pc' = [pc EXCEPT ![i] = "idle"]
    /\ STATE_JSON' = [STATE_JSON EXCEPT ![i] = <<>>]
    /\ NOW' = [NOW EXCEPT ![i] = 0]
    /\ idx' = [idx EXCEPT ![i] = 1]
    /\ log' = [log EXCEPT ![i] = <<>>]
    /\ UNCHANGED <<history, live, runs, faults, clock, others>>

Step(i) == Extract(i) \/ Count(i) \/ Post(i) \/ Patch(i) \/ Exit(i)

\* Serialized runs: one invocation at a time, each over any document.
StartSerial == Start("A", Documents)

Next == StartSerial \/ Step("A")

Spec == Init /\ [][Next]_vars

\* Concurrent runs: two triggers hand the same document to the script, the
\* second while the first is still at work.
StartFirst == runs = 0 /\ Start("A", Documents)
StartSecond == Running("A") /\ Start("B", {STATE_JSON["A"]})

NextConc ==
    \/ StartFirst
    \/ StartSecond
    \/ \E i \in Invocations :
          Extract(i) \/ Count(i) \/ Post(i) \/ Patch(i)

SpecConc == Init /\ [][NextConc]_vars

\* A run, and then runs over the same document again: the process ends and
\* the script is started anew with the argument it had.
Rerun(i) ==
    /\ Ended(i)
    /\ runs < MaxRuns
    /\ runs' = runs + 1
    /\ clock' = clock + Tick
    /\ pc' = [pc EXCEPT ![i] = "loop"]
    /\ NOW' = [NOW EXCEPT ![i] = clock']
    /\ idx' = [idx EXCEPT ![i] = 1]
    /\ log' = [log EXCEPT ![i] = <<>>]
    /\ UNCHANGED <<history, live, STATE_JSON, faults, others>>

NextRerun ==
    \/ StartFirst
    \/ Rerun("A")
    \/ Extract("A") \/ Count("A") \/ Post("A") \/ Patch("A")

SpecRerun == Init /\ [][NextRerun]_vars

\* The duration step alone, over every start and elapsed time in range.
DurNow == MaxSecs
DurInputs ==
    {None} \cup {Some(Ts(k, s, f)) : k \in TsKinds, s \in 0..(MaxSecs + 1), f \in BOOLEAN}

InitDur ==
    /\ InitScript
    /\ \E started_at \in DurInputs :
          dur = [DurIdle EXCEPT !.pc = "input", !.started_at = started_at, !.now = DurNow]
    /\ pipelineRow = RowNone
    /\ dashboard = DashNone
    /\ email = EmailNone

ComputeDuration ==
    /\ dur.pc = "input"
    /\ LET r == DurationStep(dur.started_at, dur.now)
       IN  dur' = [dur EXCEPT !.pc = "done", !.value = r.value, !.rc = r.rc]
    /\ UNCHANGED <<scriptVars, pipelineRow, dashboard, email>>

NextDur == ComputeDuration

SpecDur == InitDur /\ [][NextDur]_vars

\* PipelineRow as a component of its own, over every pipeline in range: it
\* is given props of type Pipeline, whatever their status (the Dashboard's
\* own list is made of the running pipelines), React mounts it, and the
\* user clicks its header any number of times.
InitRow ==
    /\ InitScript
    /\ dur = DurIdle
    /\ \E pipeline \in RowPipelines :
          pipelineRow = [pc |-> "props", pipeline |-> pipeline]
    /\ dashboard = DashNone
    /\ email = EmailNone

\* A row that starts expanded, whatever the status.
DefaultExpanded(pipeline) == FALSE

\* the initial state of useState(pipeline.status !== "running")
DefaultCollapsed(pipeline) == pipeline.status # "running"

\* useState(pipeline.status !== "running"), and the first render
Mount ==
    /\ pipelineRow.pc = "props"
    /\ LET pipeline == pipelineRow.pipeline
           collapsed == DefaultCollapsed(pipeline)
       IN  pipelineRow' = [pc |-> "mounted", pipeline |-> pipeline,
                           collapsed |-> collapsed,
                           view |-> Render(pipeline, collapsed)]
    /\ UNCHANGED <<scriptVars, dur, dashboard, email>>

\* onClick={() => setCollapsed((c) => !c)}, and the render that follows
Toggle ==
    /\ pipelineRow.pc = "mounted"
    /\ LET collapsed == ~pipelineRow.collapsed
       IN  pipelineRow' = [pipelineRow EXCEPT
                              !.collapsed = collapsed,
                              !.view = Render(pipelineRow.pipeline, collapsed)]
    /\ UNCHANGED <<scriptVars, dur, dashboard, email>>

NextRow == Mount \/ Toggle

SpecRow == InitRow /\ [][NextRow]_vars

\* ---------------------------------------------------------- the Dashboard
\* setInterval(fetchState, 10000) against the tick's 1000: a poll every
\* PollEvery ticks
PollEvery == 10
\* useState(10), setCountdown(10) and the tick's wrap
CountdownFrom == 10

\* The documents the row holds in turn, lastUpdated telling them apart: a
\* running and a complete pipeline, then a failed one, then a document
\* without pipelines.
DashDocument(v) ==
    [lastUpdated |-> v,
     pipelines |->
        CASE v % 3 = 1 ->
                Some(<<RowPipeline(StagesUpTo(2), StagesUpTo(1), StageName(2), "running"),
                       RowPipeline(StagesUpTo(2), StagesUpTo(2), StageName(2), "complete")>>)
          [] v % 3 = 2 ->
                Some(<<RowPipeline(StagesUpTo(2), StagesUpTo(1), StageName(2), "failed")>>)
          [] OTHER -> None]

\* (state.pipelines || [])
PipelinesOf(state) == Get(state.pipelines, <<>>)

IsRunning(p) == p.status = "running"
IsNotRunning(p) == p.status # "running"

\* (state.pipelines || []).filter((p) => p.status === "running")
runningPipelines(state) == SelectSeq(PipelinesOf(state), IsRunning)

\* (state.pipelines || []).filter((p) => p.status !== "running")
donePipelines(state) == SelectSeq(PipelinesOf(state), IsNotRunning)

\* <PipelineRow key={p.id} pipeline={p} />, as it is first drawn
RowOf(p) ==
    [pipeline |-> p, collapsed |-> DefaultCollapsed(p),
     view |-> Render(p, DefaultCollapsed(p))]

\* What the Dashboard draws of the pipelines: the loading screen while
\* state is null; else the two counts, and a PipelineRow per element of
\* runningPipelines ("No active pipelines" when there is none).
DashRender(state) ==
    IF state = None
    THEN [loading |-> TRUE, active |-> 0, done |-> 0, rows |-> <<>>]
    ELSE LET running == runningPipelines(state[1])
         IN  [loading |-> FALSE,
              active |-> Len(running),
              done |-> Len(donePipelines(state[1])),
              rows |-> [n \in 1..Len(running) |-> RowOf(running[n])]]

\* a request of fetchState, from its issue to the end of the call
PollSent == [phase |-> "sent"]
PollAnswered(error, data) == [phase |-> "answered", error |-> error, data |-> data]
PollDone(error, data) == [phase |-> "done", error |-> error, data |-> data]

\* A catch block that also restarts the countdown.
CatchRestarting(d) == [d EXCEPT !.countdown = CountdownFrom]

\* catch (e) { console.error("Failed to fetch state:", e); }
Catch(d) == d

\* setState(data.state); setLastRefresh(new Date()); setCountdown(10)
Then(d, data) ==
    [d EXCEPT !.state = Some(data),
              !.lastRefresh = Some(d.elapsed),
              !.countdown = CountdownFrom,
              !.view = DashRender(Some(data))]

\* The page opens: the three useState, the first render, and the effects,
\* of which the first calls fetchState() at once.
DashMount ==
    /\ dashboard.pc = "none"
    /\ dashboard' = [pc |-> "mounted", state |-> None, lastRefresh |-> None,
                     countdown |-> CountdownFrom, elapsed |-> 0,
                     polls |-> <<PollSent>>, view |-> DashRender(None)]
    /\ UNCHANGED <<scriptVars, dur, pipelineRow, email>>

\* the 10000 ms timer is due: as many periods have passed as polls went out
IntervalDue == dashboard.elapsed >= Len(dashboard.polls) * PollEvery

\* setInterval(fetchState, 10000): the next request goes out, whatever
\* became of the ones before.
Interval ==
    /\ dashboard.pc = "mounted"
    /\ IntervalDue
    /\ dashboard' = [dashboard EXCEPT !.polls = Append(@, PollSent)]
    /\ UNCHANGED <<scriptVars, dur, pipelineRow, email>>

\* setInterval(() => setCountdown((c) => (c > 0 ? c - 1 : 10)), 1000)
Tick1s ==
    /\ dashboard.pc = "mounted"
    /\ ~IntervalDue
    /\ dashboard.elapsed < MaxSeconds
    /\ dashboard' = [dashboard EXCEPT
                        !.elapsed = @ + 1,
                        !.countdown = IF @ > 0 THEN @ - 1 ELSE CountdownFrom]
    /\ UNCHANGED <<scriptVars, dur, pipelineRow, email>>

\* The script, run elsewhere, has PATCHed dashboard_state with its next
\* document.
StateWritten ==
    /\ dashboard.pc = "mounted"
    /\ live < MaxWrites
    /\ live' = live + 1
    /\ UNCHANGED <<history, pc, STATE_JSON, NOW, idx, log, runs, faults, clock, others>>

\* .from("dashboard_state").select("state").eq("id", 1).single(): the store
\* answers request n with the row's state as it is then (an error while
\* there is no row), or with an error, or the request fails on its way.
Answer(n) ==
    /\ dashboard.pc = "mounted"
    /\ n \in 1..Len(dashboard.polls)
    /\ dashboard.polls[n].phase = "sent"
    /\ \E outcome \in {"row", "storeError", "fetchError"} :
          LET error == IF outcome = "row"
                       THEN (IF live = 0 THEN Some("noRow") ELSE None)
                       ELSE Some(outcome)
              data == IF error = None THEN Some([state |-> DashDocument(live)]) ELSE None
          IN  dashboard' = [dashboard EXCEPT !.polls[n] = PollAnswered(error, data)]
    /\ UNCHANGED <<scriptVars, dur, pipelineRow, email>>

\* The await of request n resumes: if (error) throw error, else the three
\* setters and the render they cause.
Resume(n) ==
    /\ dashboard.pc = "mounted"
    /\ n \in 1..Len(dashboard.polls)
    /\ dashboard.polls[n].phase = "answered"
    /\ LET poll == dashboard.polls[n]
           after == IF poll.error # None
                    THEN Catch(dashboard)
                    ELSE Then(dashboard, poll.data[1].state)
       IN  dashboard' = [after EXCEPT !.polls[n] = PollDone(poll.error, poll.data)]
    /\ UNCHANGED <<scriptVars, dur, pipelineRow, email>>

AnswerAny == dashboard.pc = "mounted" /\ \E n \in 1..Len(dashboard.polls) : Answer(n)
ResumeAny == dashboard.pc = "mounted" /\ \E n \in 1..Len(dashboard.polls) : Resume(n)

NextDash == DashMount \/ Interval \/ Tick1s \/ StateWritten \/ AnswerAny \/ ResumeAny

SpecDash == Init /\ [][NextDash]_vars

\* ---------------------------------------------------------- the EmailPage
\* the last email of the sequence: CHECK (current_stage BETWEEN 1 AND 8),
\* and advanceStage's own limit
LastStage == 8

\* a row of email_subscribers, by the two columns advanceStage writes
Subscriber(current_stage, status) == [current_stage |-> current_stage, status |-> status]

\* The subscriber as the page's buttons leave it after stage - 1 clicks, one
\* at a time, from the seed row (1, 'active'): emails 1..stage-1 sent.
SubscriberAt(stage) ==
    [row |-> Subscriber(stage, IF stage >= LastStage THEN "completed" ELSE "active"),
     sends |-> [n \in 1..(stage - 1) |-> n]]

\* a call of fetchData, and a call of advanceStage(sub), by the request
\* they wait for
FetchSent == [phase |-> "sent"]
FetchAnswered(data) == [phase |-> "answered", data |-> data]
CallOf(sub) == [sub |-> sub, phase |-> "update"]

\* s without its n-th element
Without(s, n) == SubSeq(s, 1, n - 1) \o SubSeq(s, n + 1, Len(s))

\* a subscriber at any stage, and the page not yet open; stage0 and
\* effective keep the stage at the start and the clicks that passed
\* advanceStage's guard
InitEmail ==
    /\ InitScript
    /\ dur = DurIdle
    /\ pipelineRow = RowNone
    /\ dashboard = DashNone
    /\ \E stage \in 1..LastStage :
          email = [pc |-> "closed",
                   row |-> SubscriberAt(stage).row,
                   sends |-> SubscriberAt(stage).sends,
                   stage0 |-> stage, effective |-> 0, clicks |-> 0, timers |-> 0,
                   subscribers |-> None, calls |-> <<>>, fetches |-> <<>>]

\* The page opens: useState([]), and the effect calls fetchData() at once.
EmailMount ==
    /\ email.pc = "closed"
    /\ email' = [email EXCEPT !.pc = "open", !.fetches = <<FetchSent>>]
    /\ UNCHANGED <<scriptVars, dur, pipelineRow, dashboard>>

\* setInterval(fetchData, 30000)
EmailInterval ==
    /\ email.pc = "open"
    /\ email.timers < MaxRefetches
    /\ email' = [email EXCEPT !.timers = @ + 1, !.fetches = Append(@, FetchSent)]
    /\ UNCHANGED <<scriptVars, dur, pipelineRow, dashboard>>

\* from("email_subscribers").select("*"): the store answers with the row as
\* it is then.  (The page's copy of email_sends, fetched beside it, plays
\* no part in advanceStage and is left out.)
Select(f) ==
    /\ email.pc = "open"
    /\ f \in 1..Len(email.fetches)
    /\ email.fetches[f].phase = "sent"
    /\ email' = [email EXCEPT !.fetches[f] = FetchAnswered(email.row)]
    /\ UNCHANGED <<scriptVars, dur, pipelineRow, dashboard>>

\* fetchData after its await: if (subRes.data) setSubscribers(subRes.data)
SetSubscribers(f) ==
    /\ email.pc = "open"
    /\ f \in 1..Len(email.fetches)
    /\ email.fetches[f].phase = "answered"
    /\ email' = [email EXCEPT !.subscribers = Some(email.fetches[f].data),
                              !.fetches = Without(@, f)]
    /\ UNCHANGED <<scriptVars, dur, pipelineRow, dashboard>>

\* A click on "Send Next", drawn while sub.status === "active":
\* advanceStage(sub) with the sub of the last render, up to its first await
\* (the update goes out with newStage and newStatus worked out from sub).
SendNext ==
    /\ email.pc = "open"
    /\ email.subscribers # None
    /\ email.subscribers[1].status = "active"
    /\ email.clicks < MaxClicks
    /\ LET sub == email.subscribers[1]
       IN  email' = IF sub.current_stage >= LastStage
                    THEN [email EXCEPT !.clicks = @ + 1]
                    ELSE [email EXCEPT !.clicks = @ + 1,
                                       !.effective = @ + 1,
                                       !.calls = Append(@, CallOf(sub))]
    /\ UNCHANGED <<scriptVars, dur, pipelineRow, dashboard>>

\* update({ current_stage: newStage, status: newStatus }).eq("id", sub.id)
\* is applied by the store, and the call goes on to its insert.
Update(c) ==
    /\ email.pc = "open"
    /\ c \in 1..Len(email.calls)
    /\ email.calls[c].phase = "update"
    /\ LET sub == email.calls[c].sub
           newStage == sub.current_stage + 1
           newStatus == IF newStage >= LastStage THEN "completed" ELSE sub.status
       IN  email' = [email EXCEPT !.row = Subscriber(newStage, newStatus),
                                  !.calls[c].phase = "insert"]
    /\ UNCHANGED <<scriptVars, dur, pipelineRow, dashboard>>

\* insert({ subscriber_id: sub.id, email_number: sub.current_stage, status:
\* "sent" }) is applied by the store, and the call ends with fetchData().
InsertSend(c) ==
    /\ email.pc = "open"
    /\ c \in 1..Len(email.calls)
    /\ email.calls[c].phase = "insert"
    /\ email' = [email EXCEPT !.sends = Append(@, email.calls[c].sub.current_stage),
                              !.calls = Without(@, c),
                              !.fetches = Append(@, FetchSent)]
    /\ UNCHANGED <<scriptVars, dur, pipelineRow, dashboard>>

SelectAny == email.pc = "open" /\ \E f \in 1..Len(email.fetches) : Select(f)
SetSubscribersAny == email.pc = "open" /\ \E f \in 1..Len(email.fetches) : SetSubscribers(f)
UpdateAny == email.pc = "open" /\ \E c \in 1..Len(email.calls) : Update(c)
InsertSendAny == email.pc = "open" /\ \E c \in 1..Len(email.calls) : InsertSend(c)

NextEmail ==
    \/ EmailMount
    \/ EmailInterval
    \/ SelectAny
    \/ SetSubscribersAny
    \/ SendNext
    \/ UpdateAny
    \/ InsertSendAny

SpecEmail == InitEmail /\ [][NextEmail]_vars

\* ------------------------------------------------------------- properties
IsPrefix(s, t) == Len(s) <= Len(t) /\ SubSeq(t, 1, Len(s)) = s

Events(i) == {log[i][n] : n \in 1..Len(log[i])}
\* the events of the loop: each is about the candidate at place k
LoopEvents(i) == {e \in Events(i) : e.op # "patch"}
Terminals == {"complete", "failed"}
IdAt(i, k) == ExtractId(PIPELINES_JSON(i)[k])
\* the rows of an id that were in the history before invocation i started
RowsBefore(i, id) == SelectSeq(RowsOf(history, id), LAMBDA r : r.completed_at < NOW[i])
Inserted(i, k) == Event("post", k, "201") \in Events(i)

\* C1: after any serialized runs over any documents, the history holds at
\* most one row per pipeline id.
C1_AtMostOneRowPerId ==
    \A j, k \in 1..Len(history) :
        j # k => history[j].pipeline_id # history[k].pipeline_id

\* C2: a second run over the same batch, the history holding what the first
\* run wrote, inserts no row for a pipeline the first run archived.
C2_SecondRunInsertsNothing ==
    runs >= 2 =>
        \A e \in LoopEvents("A") :
            (e.op = "post" /\ e.res = "201") => RowsBefore("A", IdAt("A", e.k)) = <<>>

\* C3: of two terminal snapshots with one id in a batch, the id not yet in
\* the history, exactly one row is written, built from the first of them
\* (stated for runs in which no request failed).
C3_FirstOccurrenceArchived ==
    \A i \in Invocations :
        \A j, k \in 1..Len(PIPELINES_JSON(i)) :
            ( /\ faults = 0
              /\ j < k
              /\ IdAt(i, j) = IdAt(i, k)
              /\ ~SkipId(IdAt(i, j))
              /\ \A h \in 1..(j - 1) : IdAt(i, h) # IdAt(i, j)
              /\ RowsBefore(i, IdAt(i, j)) = <<>>
              /\ (Ended(i) \/ idx[i] > k) )
            => RowsOf(history, IdAt(i, j))
                 = <<BuildPayload(PIPELINES_JSON(i)[j], NOW[i]).payload>>

InsertsOf(i, id) ==
    {n \in 1..Len(log[i]) : /\ log[i][n].op = "post"
                            /\ log[i][n].res = "201"
                            /\ IdAt(i, log[i][n].k) = id}

\* C4: with two invocations at work on one document and no request failing,
\* no invocation inserts a pipeline id twice, so an id has at most one row
\* per invocation: two rows of one id are the work of two invocations, which
\* is the race the witness reaches.
C4_DuplicatesAcrossInvocations ==
    faults = 0 =>
        \A id \in Ids :
            /\ \A i \in Invocations : Cardinality(InsertsOf(i, id)) <= 1
            /\ Len(RowsOf(history, id)) <= Cardinality(Invocations)

\* Two rows of one id, each inserted by an invocation whose count of that
\* id came back empty, and no request failed.
C4_Witness_TwoRows ==
    /\ faults = 0
    /\ \E j, k \in 1..Len(history) :
          /\ j < k
          /\ history[j].pipeline_id = history[k].pipeline_id
          /\ \A i \in Invocations :
                \E n \in 1..Len(PIPELINES_JSON(i)) :
                    /\ IdAt(i, n) = history[j].pipeline_id
                    /\ Event("count", n, "empty") \in Events(i)
                    /\ Inserted(i, n)

\* C5: only pipelines whose status is complete or failed are candidates: no
\* drop, lookup or insert is about any other, and no row has another status.
C5_OnlyTerminalConsidered ==
    /\ \A i \in Invocations :
          LET pj == PIPELINES_JSON(i)
          IN  \A n \in 1..Len(log[i]) :
                  log[i][n].op # "patch" => pj[log[i][n].k].status \in Terminals
    /\ \A n \in 1..Len(history) : history[n].status \in Terminals

\* A finished run over a document that has a running pipeline and archived
\* another.
C5_Witness_RunningIgnored ==
    /\ pc["A"] = "done"
    /\ \E n \in 1..Len(STATE_JSON["A"]) : STATE_JSON["A"][n].status = "running"
    /\ \E k \in 1..Len(PIPELINES_JSON("A")) : Inserted("A", k)

\* C6: the history is append-only: every step leaves the rows it found, in
\* their places.
C6_AppendOnly == [][IsPrefix(history, history')]_vars

\* Two runs have each added a row.
C6_Witness_Grown ==
    /\ Len(history) >= 2
    /\ history[1].completed_at # history[2].completed_at

\* C7: within an invocation, every insert comes right after a lookup of the
\* same candidate that reported no row.
C7_InsertAfterEmptyLookup ==
    \A i \in Invocations :
        \A n \in 1..Len(log[i]) :
            log[i][n].op = "post" =>
                /\ n > 1
                /\ log[i][n - 1] = Event("count", log[i][n].k, "empty")

IdMissing(p) == p.id = None \/ p.id = Some("unknown")

\* C8: a candidate without id, or with the id "unknown", is dropped: no
\* request is made for it, the run does not end on it, and a run that
\* reaches the PATCH has dealt with every candidate.
C8_SentinelIdDropped ==
    \A i \in Invocations :
        LET pj == PIPELINES_JSON(i)
            lg == log[i]
        IN  /\ \A n \in 1..Len(lg) :
                  (lg[n].op # "patch" /\ IdMissing(pj[lg[n].k])) => lg[n].op = "drop"
            /\ \A k \in 1..Len(pj) :
                  (IdMissing(pj[k]) /\ idx[i] > k)
                      => \E n \in 1..Len(lg) : lg[n] = Event("drop", k, "return")
            /\ pc[i] = "aborted" => lg[Len(lg)].op # "drop"
            /\ pc[i] \in {"patch", "done", "exit1"} =>
                  \A k \in 1..Len(pj) :
                      \E n \in 1..Len(lg) : lg[n].op # "patch" /\ lg[n].k = k

\* A finished run that dropped its first candidate and archived its second.
C8_Witness_DroppedThenArchived ==
    /\ pc["A"] = "done"
    /\ Event("drop", 1, "return") \in Events("A")
    /\ Inserted("A", 2)

\* whole seconds from startedAt to completedAt
Elapsed(ts, now) == IF ts.frac THEN now - ts.secs - 1 ELSE now - ts.secs
NotLater(ts, now) == ts.secs < now \/ (ts.secs = now /\ ~ts.frac)
\* a startedAt that reads as an instant
Parseable(started_at) == started_at # None /\ started_at[1].kind = "aware"

WrittenBy(i) == SelectSeq(history, LAMBDA r : r.completed_at = NOW[i])

\* the record's copied fields are the snapshot's
CopiedFrom(r, p, now) ==
    /\ p.id # None /\ r.pipeline_id = p.id[1]
    /\ r.name = (IF p.name = None THEN <<"Unknown Pipeline">> ELSE p.name[1])
    /\ p.stages # None /\ r.stages = p.stages[1]
    /\ p.completedStages # None /\ r.completed_stages = p.completedStages[1]
    /\ r.status = p.status
    /\ r.completed_at = now

\* C11: every row an invocation has written is the record of a candidate it
\* inserted: pipeline_id, stages, completed_stages and status are the
\* snapshot's, name is the snapshot's name or "Unknown Pipeline" when it has
\* none, and completed_at is the invocation's NOW.
C11_RecordCopiesSnapshot ==
    LET rows == WrittenBy("A")
        pj == PIPELINES_JSON("A")
    IN  \A n \in 1..Len(rows) :
            \E k \in 1..Len(pj) :
                Inserted("A", k) /\ CopiedFrom(rows[n], pj[k], NOW["A"])

\* candidate k of invocation i is the first of its id in the batch, has an
\* id that is kept, and its id had no row when the invocation started
FreshAt(i, k) ==
    /\ ~SkipId(IdAt(i, k))
    /\ \A h \in 1..(k - 1) : IdAt(i, h) # IdAt(i, k)
    /\ RowsBefore(i, IdAt(i, k)) = <<>>

\* the invocation is past candidate k, or over
PastAt(i, k) == Ended(i) \/ pc[i] = "patch" \/ idx[i] > k

\* C12: a fresh candidate with a startedAt is archived by exactly one row,
\* whose tasks are the snapshot's list, or null when it has none (stated for
\* runs in which no request failed).
C12_TasksPassedThrough ==
    LET pj == PIPELINES_JSON("A")
    IN  \A k \in 1..Len(pj) :
            ( /\ faults = 0
              /\ FreshAt("A", k)
              /\ pj[k].startedAt # None
              /\ PastAt("A", k) )
            => LET rows == RowsOf(history, IdAt("A", k))
               IN  Len(rows) = 1 /\ rows[1].tasks = pj[k].tasks

\* C13: a fresh candidate without startedAt is archived: the history holds a
\* row of its id whose started_at is null and whose duration is "unknown"
\* (stated for runs in which no request failed).
C13_NullStartedAtPersisted ==
    LET pj == PIPELINES_JSON("A")
    IN  \A k \in 1..Len(pj) :
            ( /\ faults = 0
              /\ FreshAt("A", k)
              /\ pj[k].startedAt = None
              /\ pj[k].tasks # None
              /\ pc["A"] = "done" )
            => \E n \in 1..Len(history) :
                   /\ history[n].pipeline_id = IdAt("A", k)
                   /\ history[n].started_at = None
                   /\ history[n].duration = "unknown"

\* the places in the batch of the candidates invocation i has inserted, in
\* the order of the inserts
RECURSIVE InsertPlaces(_)
InsertPlaces(lg) ==
    IF lg = <<>> THEN <<>>
    ELSE LET e == lg[Len(lg)]
             before == InsertPlaces(SubSeq(lg, 1, Len(lg) - 1))
         IN  IF e.op = "post" /\ e.res = "201" THEN Append(before, e.k) ELSE before

\* C14: the rows an invocation has written stand in the history in the order
\* their snapshots have in the batch: the n-th of them is the record of the
\* n-th inserted candidate, and the inserted candidates' places ascend.
C14_InsertOrderIsBatchOrder ==
    LET rows == WrittenBy("A")
        pj == PIPELINES_JSON("A")
        places == InsertPlaces(log["A"])
    IN  /\ Len(rows) = Len(places)
        /\ \A n \in 1..Len(places) :
              /\ rows[n] = BuildPayload(pj[places[n]], NOW["A"]).payload
              /\ \A m \in 1..(n - 1) : places[m] < places[n]

\* A run has archived two different pipelines of its batch.
C14_Witness_TwoInserted ==
    /\ Len(WrittenBy("A")) = 2
    /\ WrittenBy("A")[1].pipeline_id # WrittenBy("A")[2].pipeline_id
    /\ pc["A"] = "done"

\* C15: in a run in which no request fails, whatever the snapshots lack, the
\* script never stops midway: it is not ended before its PATCH, and when it
\* is over every candidate has been dealt with and the document is the live
\* state.
C15_MalformedInputNeverFatal ==
    faults = 0 =>
        /\ pc["A"] # "aborted"
        /\ Ended("A") =>
              /\ live = NOW["A"]
              /\ \A k \in 1..Len(PIPELINES_JSON("A")) :
                    \E e \in LoopEvents("A") : e.k = k

\* C16: a write that fails is not tried again, and it does not end the run:
\* no candidate gets two POSTs, and a run that stopped before its PATCH did
\* not stop on a POST.
C16_FailedWriteIsLocal ==
    LET lg == log["A"]
    IN  /\ \A m, n \in 1..Len(lg) :
              (m # n /\ lg[m].op = "post" /\ lg[n].op = "post") => lg[m].k # lg[n].k
        /\ (pc["A"] = "aborted" /\ lg # <<>>) => lg[Len(lg)].op # "post"

\* C17: the PATCH that persists the document is the invocation's last
\* request: every drop, lookup and insert for the document's candidates is
\* in the log before it, and each candidate has been dealt with by then.
C17_ArchivalBeforeStateWrite ==
    LET lg == log["A"]
    IN  \A n \in 1..Len(lg) :
            lg[n].op = "patch" =>
                /\ n = Len(lg)
                /\ \A k \in 1..Len(PIPELINES_JSON("A")) :
                      \E m \in 1..(n - 1) : lg[m].op # "patch" /\ lg[m].k = k

\* A run that looked up and inserted a candidate, and then wrote the state.
C17_Witness_InsertThenPatch ==
    /\ pc["A"] = "done"
    /\ live = NOW["A"]
    /\ Inserted("A", 1)
    /\ log["A"][Len(log["A"])] = Event("patch", 2, "204")

\* the integer nearest to 100 k / n, a half going up
RoundHalfUp(k, n) == (200 * k + n) \div (2 * n)

\* C18: for n >= 1 stages of which 0 <= k <= n are completed, the percentage
\* PipelineRow computes is 100 k / n rounded half up, and lies in 0..100.
C18_PercentIsRoundHalfUp ==
    pipelineRow.pc = "mounted" =>
        LET n == Len(pipelineRow.pipeline.stages)
            k == Len(pipelineRow.pipeline.completedStages)
        IN  (n >= 1 /\ k <= n) =>
                /\ pipelineRow.view.pct = RoundHalfUp(k, n)
                /\ pipelineRow.view.pct \in 0..100

\* the pills of the row as it is drawn (none while it is collapsed)
Pills == IF pipelineRow.pc = "mounted" THEN pipelineRow.view.pills ELSE <<>>
TaggedCurrent(pill) == pill.style = "current"
UniqueNames(stages) == \A m, n \in 1..Len(stages) : stages[m] = stages[n] => m = n

\* C19: a stage is tagged current (drawn in the current style, bold, with
\* the pulsing dot) iff it is the pipeline's currentStage and the status is
\* running; so at most one stage of a running pipeline with unique stage
\* names is current, and none of a complete or failed one.
C19_CurrentIffRunningAtCurrentStage ==
    pipelineRow.pc = "mounted" =>
        LET pipeline == pipelineRow.pipeline
        IN  /\ \A n \in 1..Len(Pills) :
                  /\ TaggedCurrent(Pills[n]) <=>
                        (Pills[n].stage = pipeline.currentStage /\ pipeline.status = "running")
                  /\ Pills[n].bold = TaggedCurrent(Pills[n])
                  /\ Pills[n].dot = TaggedCurrent(Pills[n])
            /\ UniqueNames(pipeline.stages) =>
                  \A m, n \in 1..Len(Pills) :
                      (TaggedCurrent(Pills[m]) /\ TaggedCurrent(Pills[n])) => m = n
            /\ pipeline.status # "running" =>
                  \A n \in 1..Len(Pills) : ~TaggedCurrent(Pills[n])

\* A failed pipeline, expanded by a click, whose currentStage is one of its
\* stages: the pill of that stage is drawn, and not as current.
C19_Witness_TerminalExpanded ==
    /\ pipelineRow.pc = "mounted"
    /\ pipelineRow.pipeline.status = "failed"
    /\ \E n \in 1..Len(Pills) :
          /\ Pills[n].stage = pipelineRow.pipeline.currentStage
          /\ ~TaggedCurrent(Pills[n])

\* the marks of a failure at this stage: the failed style, the cross
MarkedFailedHere(pill) == pill.style = "failed" \/ pill.cross

\* C20: a stage is marked failed-here iff the status is failed, the stage is
\* the pipeline's currentStage and it is not among the completed stages.
C20_FailedHereMark ==
    pipelineRow.pc = "mounted" =>
        LET pipeline == pipelineRow.pipeline
        IN  \A n \in 1..Len(Pills) :
                MarkedFailedHere(Pills[n]) <=>
                    /\ pipeline.status = "failed"
                    /\ Pills[n].stage = pipeline.currentStage
                    /\ ~Includes(pipeline.completedStages, Pills[n].stage)

\* the tags a pill shows: the one its style stands for, and done when it
\* bears the check mark
TagOfStyle(style) ==
    CASE style = "current" -> "current"
      [] style = "completed" -> "done"
      [] style = "failed" -> "failed-here"
      [] style = "pending" -> "pending"
TagsOf(pill) == {TagOfStyle(pill.style)} \cup (IF pill.check THEN {"done"} ELSE {})

\* C21: every stage of the expanded row shows exactly one tag out of done,
\* current, pending and failed-here, and it shows done iff it is among the
\* completed stages.
C21_ExactlyOneTag ==
    pipelineRow.pc = "mounted" =>
        LET pipeline == pipelineRow.pipeline
        IN  /\ ~pipelineRow.collapsed => Len(Pills) = Len(pipeline.stages)
            /\ \A n \in 1..Len(Pills) :
                  /\ Pills[n].stage = pipeline.stages[n]
                  /\ Cardinality(TagsOf(Pills[n])) = 1
                  /\ "done" \in TagsOf(Pills[n]) <=>
                        Includes(pipeline.completedStages, Pills[n].stage)

\* C22: when currentStage is no stage of the pipeline, the expanded row
\* still has a pill for every stage, in the done or the pending style, and
\* none is drawn as current or marked failed-here, whatever the status.
C22_ForeignCurrentStage ==
    (pipelineRow.pc = "mounted" /\ ~pipelineRow.collapsed) =>
        LET pipeline == pipelineRow.pipeline
        IN  ~Includes(pipeline.stages, pipeline.currentStage) =>
                /\ Len(Pills) = Len(pipeline.stages)
                /\ \A n \in 1..Len(Pills) :
                      /\ Pills[n].stage = pipeline.stages[n]
                      /\ ~TaggedCurrent(Pills[n])
                      /\ ~Pills[n].dot
                      /\ ~MarkedFailedHere(Pills[n])
                      /\ Pills[n].style \in {"completed", "pending"}

\* A failed and a running pipeline in turn would do; this is the failed
\* one, expanded, two stages long, with a currentStage it does not have.
C22_Witness_ForeignExpanded ==
    /\ pipelineRow.pc = "mounted"
    /\ ~pipelineRow.collapsed
    /\ pipelineRow.pipeline.status = "failed"
    /\ pipelineRow.pipeline.currentStage = NoStage
    /\ Len(Pills) = 2
    /\ Pills[1].style = "completed"
    /\ Pills[2].style = "pending"

\* C23: a row starts expanded iff its pipeline is running: the mount leaves
\* it collapsed for a complete or failed pipeline and expanded for a running
\* one, and draws it so.
C23_DefaultExpandState ==
    [][pipelineRow.pc = "props" =>
          /\ pipelineRow'.pc = "mounted"
          /\ pipelineRow'.collapsed = (pipelineRow.pipeline.status # "running")
          /\ (pipelineRow'.view.pills # <<>>) = (pipelineRow.pipeline.status = "running")]_vars

\* A complete pipeline, mounted: collapsed, its summary bar drawn and no
\* pill.
C23_Witness_CompleteCollapsed ==
    /\ pipelineRow.pc = "mounted"
    /\ pipelineRow.pipeline.status = "complete"
    /\ pipelineRow.collapsed
    /\ pipelineRow.view.pills = <<>>
    /\ Len(pipelineRow.view.summary) = 2

\* the pills of the pipeline, as any expanded row of it shows them
PillsOf(pipeline) == [n \in 1..Len(pipeline.stages) |-> Pill(pipeline, pipeline.stages[n])]

\* C24: a click on the header of a mounted row flips its collapsed flag and
\* nothing else: the pipeline and the percentage stay, and the stage pills,
\* whenever they are drawn, are the same ones; flipping twice gives the flag
\* back.
C24_ToggleOnlyFlipsCollapsed ==
    [][pipelineRow.pc = "mounted" =>
          /\ pipelineRow'.pc = "mounted"
          /\ pipelineRow'.collapsed = ~pipelineRow.collapsed
          /\ (~pipelineRow'.collapsed) = pipelineRow.collapsed
          /\ pipelineRow'.pipeline = pipelineRow.pipeline
          /\ pipelineRow'.view.pct = pipelineRow.view.pct
          /\ \A r \in {pipelineRow, pipelineRow'} :
                r.view.pills = IF r.collapsed THEN <<>> ELSE PillsOf(r.pipeline)]_vars

\* A running pipeline, expanded at mount, has been collapsed by a click; its
\* percentage is still there.
C24_Witness_RunningCollapsed ==
    /\ pipelineRow.pc = "mounted"
    /\ pipelineRow.pipeline.status = "running"
    /\ pipelineRow.collapsed
    /\ Len(pipelineRow.pipeline.stages) = 2
    /\ pipelineRow.view.pct = 50

\* the pipelines the Dashboard has drawn a PipelineRow for
Projected == {dashboard.view.rows[n].pipeline : n \in 1..Len(dashboard.view.rows)}

\* C25: every pipeline of the document the Dashboard displays, whatever its
\* status, has its PipelineRow on the page.
C25_EveryPipelineProjected ==
    (dashboard.pc = "mounted" /\ dashboard.state # None) =>
        LET pipelines == PipelinesOf(dashboard.state[1])
        IN  \A n \in 1..Len(pipelines) : pipelines[n] \in Projected

\* request n has come to its end with an error / with a document
Failed(d, n) == d.polls[n].phase = "done" /\ d.polls[n].error # None
Succeeded(d, n) == d.polls[n].phase = "done" /\ d.polls[n].error = None

\* C28: the step that ends a poll in an error (of the store, or of the
\* request on its way) leaves the displayed state, what is drawn of it, the
\* last-refresh time and the countdown as they were; and the polls keep
\* going out: at every tick, one request has been issued at mount and one
\* per full period since, whatever became of the earlier ones.
C28_FailedPollLeavesDisplay ==
    [][dashboard.pc = "mounted" =>
          /\ \A n \in 1..Len(dashboard.polls) :
                (dashboard.polls[n].phase = "answered" /\ Failed(dashboard', n)) =>
                   /\ dashboard'.state = dashboard.state
                   /\ dashboard'.view = dashboard.view
                   /\ dashboard'.lastRefresh = dashboard.lastRefresh
                   /\ dashboard'.countdown = dashboard.countdown
                   /\ dashboard'.elapsed = dashboard.elapsed
          /\ dashboard'.elapsed # dashboard.elapsed =>
                Len(dashboard.polls) = 1 + (dashboard.elapsed \div PollEvery)]_vars

\* The first poll was displayed at second 3; the second one failed at
\* second 14, the document, the refresh time and the running countdown
\* still those of the first, and the third has gone out at second 20.
C28_Witness_FailedThenNextPoll ==
    /\ dashboard.pc = "mounted"
    /\ dashboard.elapsed = 2 * PollEvery
    /\ Len(dashboard.polls) = 3
    /\ Succeeded(dashboard, 1)
    /\ Failed(dashboard, 2)
    /\ dashboard.polls[2].error = Some("storeError")
    /\ dashboard.polls[3].phase = "sent"
    /\ dashboard.state = Some(dashboard.polls[1].data[1].state)
    /\ dashboard.lastRefresh = Some(3)
    /\ dashboard.countdown = 4

\* the last issued of the polls that have succeeded so far (0: none)
LatestSucceeded ==
    LET done == {n \in 1..Len(dashboard.polls) : Succeeded(dashboard, n)}
    IN  IF done = {} THEN 0 ELSE CHOOSE n \in done : \A m \in done : m <= n

\* C29: once a poll has succeeded, the displayed state is the response of
\* the last issued of the polls that have succeeded.
C29_LatestSuccessfulPollShown ==
    (dashboard.pc = "mounted" /\ LatestSucceeded > 0) =>
        dashboard.state = Some(dashboard.polls[LatestSucceeded].data[1].state)

\* C26: a lookup that failed, or that was answered with an error body, is
\* followed by no insert for its id in that invocation; and a candidate is
\* reported as already in the history only when the history has a row of
\* its id.
C26_InsertOnlyAfterPositiveEmpty ==
    LET lg == log["A"]
    IN  \A n \in 1..Len(lg) :
            /\ (lg[n].op = "count" /\ lg[n].res \in {"nojson", "errjson"}) =>
                  \A m \in 1..Len(lg) :
                      lg[m].op = "post" => IdAt("A", lg[m].k) # IdAt("A", lg[n].k)
            /\ (lg[n].op = "count" /\ lg[n].res \in {"found", "errjson"}) =>
                  RowsOf(history, IdAt("A", lg[n].k)) # <<>>

\* the invocation's PATCH has failed: its last request is the PATCH, and
\* the answer was not 204
PatchFailed(i) ==
    /\ log[i] # <<>>
    /\ log[i][Len(log[i])].op = "patch"
    /\ log[i][Len(log[i])].res # "204"

\* C27: an invocation whose PATCH failed has ended in failure without
\* writing the live state, and every row it inserted before is still in the
\* history.
C27_FailedStateWriteKeepsHistory ==
    PatchFailed("A") =>
        /\ pc["A"] \in {"exit1", "aborted"}
        /\ live # NOW["A"]
        /\ \A k \in 1..Len(PIPELINES_JSON("A")) :
              Inserted("A", k) =>
                 \E n \in 1..Len(history) :
                    history[n] = BuildPayload(PIPELINES_JSON("A")[k], NOW["A"]).payload

\* The first run of all inserted its first candidate, a failed one, and
\* then its PATCH was answered with a server error: exit 1, the row in the
\* history, and no live state was ever written.
C27_Witness_RowWithoutLiveState ==
    /\ PatchFailed("A")
    /\ pc["A"] = "exit1"
    /\ Inserted("A", 1)
    /\ PIPELINES_JSON("A")[1].status = "failed"
    /\ Len(history) = 1
    /\ history[1].status = "failed"
    /\ live = 0

\* C30: whatever the clicks on "Send Next" and the order in which their
\* requests and the refetches come through: current_stage never passes 8,
\* the status is completed exactly at stage 8, no email_number is recorded
\* twice for the subscriber, and, once no call is under way, each click that
\* passed advanceStage's guard has raised current_stage by one and inserted
\* one send row.
C30_EachClickAdvancesOnce ==
    email.pc = "open" =>
        /\ email.row.current_stage <= LastStage
        /\ (email.row.status = "completed") = (email.row.current_stage = LastStage)
        /\ \A m, n \in 1..Len(email.sends) : m # n => email.sends[m] # email.sends[n]
        /\ email.calls = <<>> =>
              /\ email.row.current_stage = email.stage0 + email.effective
              /\ Len(email.sends) = (email.stage0 - 1) + email.effective
====
